---- MODULE Spec2Model ----
(***************************************************************************)
(* The diff-tree builder of diff-wasm (src/wasm/diff-wasm/src/core.rs): a  *)
(* DiffTreeBuilder is constructed, given the two file maps, and            *)
(* build_tree runs its four phases (classification, rename detection,      *)
(* tree assembly, status and count propagation).  The session layer        *)
(* (src/wasm/diff-wasm/src/lib.rs: extraction cache, active-diff pointer,  *)
(* prefetch, build and per-file diff calls) is specified by HostSpec.      *)
(*                                                                         *)
(* Representation.                                                         *)
(*   - A path is the sequence of its '/'-separated segments; the root "/"  *)
(*     is the empty sequence.  Segments are single characters, so the      *)
(*     byte order of two path strings is the lexicographic order of their  *)
(*     segment sequences.                                                  *)
(*   - A content is the sequence of its characters (one-character          *)
(*     strings); its length in bytes is Len.                               *)
(*   - Option<T> is a sequence of length at most one: None is << >> and    *)
(*     Some(v) is <<v>>.                                                   *)
(*   - f64 scores are kept as exact fractions <<num, den>> and compared by *)
(*     cross-multiplication; the threshold is kept in tenths.  For the     *)
(*     small operands the bounds allow, the exact comparison and the f64   *)
(*     comparison agree.                                                   *)
(*   - The output tree is a function from node path to node record whose   *)
(*     children field lists the child paths in order (build_children       *)
(*     moves every node out of `nodes`, so a path names at most one node). *)
(***************************************************************************)
EXTENDS Integers, Sequences, FiniteSets, TLC

(* ------------------------------ bounds --------------------------------- *)
\* most entries of from_files and to_files together
MaxEntries == 3

\* the contents the input maps draw from: "", "x", "x\n", "x\nx"
Contents == {<< >>, <<"x">>, <<"x", "\n">>, <<"x", "\n", "x">>}

\* the paths the input maps draw their keys from: a, b, d, d/a
PathPool == {<<"a">>, <<"b">>, <<"d">>, <<"d", "a">>}
\* segments in ascending byte order
SegOrder == <<"a", "b", "d">>
\* thresholds handed to build_diff_tree, in tenths (-0.5, 0.5, 1.5)
RawThresholds == {-5, 5, 15}

Root == << >>
None == << >>
Some(v) == <<v>>

FileEntry(c) == [file_type |-> "File", content |-> c]
DirEntry == [file_type |-> "Directory", content |-> << >>]
Entries == {DirEntry} \cup {FileEntry(c) : c \in Contents}

Min(a, b) == IF a <= b THEN a ELSE b
Max(a, b) == IF a >= b THEN a ELSE b

RECURSIVE SumSeq(_)
SumSeq(s) == IF s = << >> THEN 0 ELSE Head(s) + SumSeq(Tail(s))

\* every enumeration order of a finite set
Perms(S) ==
  {s \in [1..Cardinality(S) -> S] : \A i, j \in 1..Cardinality(S) : i # j => s[i] # s[j]}

(* ------------------------------ contents ------------------------------- *)
RECURSIVE SplitNewline(_, _)
\* s.split('\n') continued from the piece `cur`: the pieces between newlines,
\* the (possibly empty) piece after the last newline included
SplitNewline(s, cur) ==
  IF s = << >> THEN <<cur>>
  ELSE IF Head(s) = "\n" THEN <<cur>> \o SplitNewline(Tail(s), << >>)
  ELSE SplitNewline(Tail(s), Append(cur, Head(s)))

\* str::split('\n')
split(s) == SplitNewline(s, << >>)

\* str::lines(): the pieces between newlines, without the empty piece after a
\* final newline (the alphabet has no '\r')
lines(s) ==
  LET p == split(s)
  IN IF p[Len(p)] = << >> THEN SubSeq(p, 1, Len(p) - 1) ELSE p

RECURSIVE SplitInclusive(_, _)
SplitInclusive(s, cur) ==
  IF s = << >> THEN (IF cur = << >> THEN << >> ELSE <<cur>>)
  ELSE IF Head(s) = "\n" THEN <<Append(cur, "\n")>> \o SplitInclusive(Tail(s), << >>)
  ELSE SplitInclusive(Tail(s), Append(cur, Head(s)))

\* the tokens of TextDiff::from_lines: each line with its terminator
from_lines(s) == SplitInclusive(s, << >>)

RECURSIVE Lcs(_, _)
\* length of a longest common subsequence: the number of Equal changes of a
\* minimal (Myers) edit script
Lcs(a, b) ==
  IF a = << >> \/ b = << >> THEN 0
  ELSE IF Head(a) = Head(b) THEN 1 + Lcs(Tail(a), Tail(b))
  ELSE Max(Lcs(Tail(a), b), Lcs(a, Tail(b)))

\* the counts of Insert, Delete and Equal changes of TextDiff::from_lines
DiffCounts(from, to) ==
  LET a == from_lines(from)
      b == from_lines(to)
      eq == Lcs(a, b)
  IN [added |-> Len(b) - eq, removed |-> Len(a) - eq, unchanged |-> eq]

\* a tally that reports the deletions as additions and the additions as deletions
count_diff_sides_swapped(from, to) ==
  LET d == DiffCounts(from, to) IN <<d.removed, d.added>>

\* count_diff: (added, removed) of the line diff
count_diff(from, to) ==
  LET d == DiffCounts(from, to) IN <<d.added, d.removed>>

\* hash_content: a 64-bit digest; equal contents collide always, different
\* ones may (here: whenever they have the same length)
hash_content(c) == Len(c)

(* ------------------------------- paths --------------------------------- *)
\* the last '/'-segment of a path: path.split('/').last()
basename(p) == p[Len(p)]

\* everything before the last '/', or the root
parent_path(p) == IF Len(p) <= 1 THEN Root ELSE SubSeq(p, 1, Len(p) - 1)

IsStrictPrefix(p, q) == Len(p) < Len(q) /\ SubSeq(q, 1, Len(p)) = p

SegRank(s) == CHOOSE i \in 1..Len(SegOrder) : SegOrder[i] = s

RECURSIVE PathLess(_, _)
\* p < q as strings
PathLess(p, q) ==
  IF q = << >> THEN FALSE
  ELSE IF p = << >> THEN TRUE
  ELSE IF Head(p) # Head(q) THEN SegRank(Head(p)) < SegRank(Head(q))
  ELSE PathLess(Tail(p), Tail(q))

RECURSIVE SortPathsDescending(_)
\* a sort that puts the greatest path first
SortPathsDescending(S) ==
  IF S = {} THEN << >>
  ELSE LET m == CHOOSE m \in S : \A q \in S \ {m} : PathLess(q, m)
       IN <<m>> \o SortPathsDescending(S \ {m})

RECURSIVE SortPaths(_)
\* child_paths.sort(): the paths of a set in ascending order
SortPaths(S) ==
  IF S = {} THEN << >>
  ELSE LET m == CHOOSE m \in S : \A q \in S \ {m} : PathLess(m, q)
       IN <<m>> \o SortPaths(S \ {m})

(* ------------------------------- state --------------------------------- *)
VARIABLES
  from_files,            \* DiffTreeBuilder.from_files: path -> FileMapEntry
  to_files,              \* DiffTreeBuilder.to_files
  from_file_paths,       \* the File keys of from_files
  to_file_paths,         \* the File keys of to_files
  from_dirs,             \* the directories of from_files
  to_dirs,               \* the directories of to_files
  similarity_threshold,  \* in tenths, clamped to 0..10
  deleted,               \* build_tree: the deleted paths, in iteration order
  added,                 \* build_tree: the added paths, in iteration order
  renames,               \* detect_renames_optimized: new path -> old path
  used,                  \* detect_renames_optimized: the old paths paired
  panicked,              \* detect_renames_optimized: an unwrap() failed
  tree,                  \* the tree under construction: node path -> node
  pc                     \* the step the caller has reached

\* the session state of the wasm module (src/wasm/diff-wasm/src/lib.rs)
VARIABLES
  cache,                 \* EXTRACTION_CACHE: cache key -> file map
  active,                \* ACTIVE_DIFF: Option<ActiveDiff>
  calls,                 \* the prefetch and build calls of the session, in start order
  active_maps,           \* the two maps the last completed build handed to the core
  diff_out               \* what a get_diff_for_path call that has just returned read and returned

corevars == <<from_files, to_files, from_file_paths, to_file_paths, from_dirs, to_dirs,
              similarity_threshold, deleted, added, renames, used, panicked, tree, pc>>

hostvars == <<cache, active, calls, active_maps, diff_out>>

vars == <<corevars, hostvars>>

EmptyMap == [p \in {} |-> << >>]

\* HashMap::insert
Insert(m, k, v) == [x \in DOMAIN m \cup {k} |-> IF x = k THEN v ELSE m[x]]

(* -------------------------- path classification ------------------------ *)
\* file_content: the content of a File entry, None for a directory or no entry
file_content(entries, path) ==
  IF path \in DOMAIN entries /\ entries[path].file_type = "File"
  THEN Some(entries[path].content) ELSE None

collect_file_paths(entries) ==
  {p \in DOMAIN entries : entries[p].file_type = "File"}

\* the Directory keys and every proper, non-empty prefix of every key
collect_directories(entries) ==
  {p \in DOMAIN entries : entries[p].file_type = "Directory"}
  \cup UNION {{SubSeq(p, 1, k) : k \in 1..(Len(p) - 1)} : p \in DOMAIN entries}

\* DiffTreeBuilder::new clamps the threshold to [0.0, 1.0]
ClampThreshold(t) == Min(Max(t, 0), 10)

(* ---------------------------- rename detector -------------------------- *)
\* a used set that is never consulted
IsUsedNever(usedNow, d) == FALSE

\* used.contains(del_path)
IsUsed(usedNow, d) == d \in usedNow

\* the distinct lines of a content: content.lines().collect::<HashSet<_>>()
LineSet(c) == {lines(c)[i] : i \in 1..Len(lines(c))}

\* |A n B| / |A u B| as a fraction; 1 when both sets are empty
jaccard_similarity(set1, set2) ==
  IF set1 = {} /\ set2 = {} THEN <<1, 1>>
  ELSE LET inter == Cardinality(set1 \cap set2)
           uni == Cardinality(set1) + Cardinality(set2) - inter
       IN IF uni = 0 THEN <<0, 1>> ELSE <<inter, uni>>

\* threshold <= len(from) / max(len(to), 1) <= 1 / threshold  (1 / 0.0 is +inf)
can_be_similar(from, to) ==
  LET lf == Len(from)
      lt == Max(Len(to), 1)
  IN /\ 10 * lf >= similarity_threshold * lt
     /\ (similarity_threshold = 0 \/ lf * similarity_threshold <= 10 * lt)

\* unchanged / max(added + removed + unchanged, 1) as a fraction
calculate_similarity(from, to) ==
  IF from = to THEN <<1, 1>>
  ELSE IF from = << >> \/ to = << >> THEN <<0, 1>>
  ELSE LET d == DiffCounts(from, to)
       IN <<d.unchanged, Max(d.added + d.removed + d.unchanged, 1)>>

\* the filename boost: similarity * 1.2 when the basenames are equal
adjusted_score(del_path, add_path, del_content, add_content) ==
  LET sim == calculate_similarity(del_content, add_content)
  IN IF basename(add_path) = basename(del_path)
     THEN <<12 * sim[1], 10 * sim[2]>> ELSE sim

\* jaccard < similarity_threshold * 0.7
JaccardTooLow(j) == 100 * j[1] < 7 * similarity_threshold * j[2]

\* adjusted >= similarity_threshold
ClearsThreshold(adj) == 10 * adj[1] >= similarity_threshold * adj[2]

\* a comparison that lets an equal score replace the best so far
ScoreGreaterOrEqual(adj, best_sim) == adj[1] * best_sim[2] >= best_sim[1] * adj[2]

\* adjusted > best_sim
ScoreGreater(adj, best_sim) == adj[1] * best_sim[2] > best_sim[1] * adj[2]

\* del_by_hash[h]: the deleted paths whose content hashes to h, in the order of `deleted`
Bucket(del, h) ==
  LET InBucket(d) == /\ file_content(from_files, d) # None
                     /\ hash_content(file_content(from_files, d)[1]) = h
  IN SelectSeq(del, InBucket)

RECURSIVE FirstExact(_, _, _)
\* the first candidate that is not used and whose content is byte-equal
FirstExact(candidates, add_content, usedNow) ==
  IF candidates = << >> THEN None
  ELSE LET d == Head(candidates)
           dc == file_content(from_files, d)
       IN IF IsUsed(usedNow, d) THEN FirstExact(Tail(candidates), add_content, usedNow)
          ELSE IF dc # None /\ add_content = dc[1] THEN Some(d)
          ELSE FirstExact(Tail(candidates), add_content, usedNow)

RECURSIVE ExactLoop(_, _, _)
ExactLoop(del, adds, st) ==
  IF adds = << >> THEN st
  ELSE LET a == Head(adds)
           c == file_content(to_files, a)
           m == IF c = None THEN None
                ELSE FirstExact(Bucket(del, hash_content(c[1])), c[1], st.used)
           st2 == IF m = None THEN st
                  ELSE [st EXCEPT !.renames = Insert(st.renames, a, m[1]),
                                  !.used = st.used \cup {m[1]}]
       IN ExactLoop(del, Tail(adds), st2)

\* phase 1: exact content matches
ExactPhase(del, adds) ==
  ExactLoop(del, adds, [renames |-> EmptyMap, used |-> {}, panicked |-> FALSE])

\* line sets precomputed for the wrong half: the paths phase 1 has used
del_line_sets_of_used(del, usedNow) ==
  [d \in {del[i] : i \in 1..Len(del)} \cap usedNow
      |-> LineSet(from_files[d].content)]

\* the line sets precomputed for the deleted paths phase 1 left unused
del_line_sets(del, usedNow) ==
  [d \in {del[i] : i \in 1..Len(del)} \ usedNow
      |-> LineSet(from_files[d].content)]

RECURSIVE BestLoop(_, _, _, _, _, _)
\* the inner loop of phase 2 for one added path: best is Option<(path, score)>
BestLoop(dels, a, ac, usedNow, lineSets, best) ==
  IF dels = << >> THEN [best |-> best, panicked |-> FALSE]
  ELSE LET d == Head(dels)
           dc == file_content(from_files, d)
           skip == BestLoop(Tail(dels), a, ac, usedNow, lineSets, best)
       IN IF IsUsed(usedNow, d) THEN skip
          ELSE IF dc = None THEN skip
          ELSE IF ~can_be_similar(dc[1], ac) THEN skip
          ELSE IF d \notin DOMAIN lineSets THEN [best |-> best, panicked |-> TRUE]
          ELSE IF JaccardTooLow(jaccard_similarity(LineSet(ac), lineSets[d])) THEN skip
          ELSE LET adj == adjusted_score(d, a, dc[1], ac)
                   take == BestLoop(Tail(dels), a, ac, usedNow, lineSets,
                                    Some([path |-> d, score |-> adj]))
               IN IF ~ClearsThreshold(adj) THEN skip
                  ELSE IF best # None
                       THEN (IF ScoreGreater(adj, best[1].score) THEN take ELSE skip)
                       ELSE take

RECURSIVE SimilarLoop(_, _, _, _)
SimilarLoop(del, adds, lineSets, st) ==
  IF adds = << >> THEN st
  ELSE LET a == Head(adds)
           c == file_content(to_files, a)
           next == SimilarLoop(del, Tail(adds), lineSets, st)
       IN IF a \in DOMAIN st.renames THEN next
          ELSE IF c = None THEN next
          ELSE LET r == BestLoop(del, a, c[1], st.used, lineSets, None)
               IN IF r.panicked THEN [st EXCEPT !.panicked = TRUE]
                  ELSE IF r.best = None THEN next
                  ELSE SimilarLoop(del, Tail(adds), lineSets,
                         [st EXCEPT !.renames = Insert(st.renames, a, r.best[1].path),
                                    !.used = st.used \cup {r.best[1].path}])

\* phase 2: similar content, after the length-ratio and Jaccard filters
SimilarPhase(del, adds, st) ==
  SimilarLoop(del, adds, del_line_sets(del, st.used), st)

detect_renames_optimized(del, adds) ==
  SimilarPhase(del, adds, ExactPhase(del, adds))

(* ------------------------------ tree builder --------------------------- *)
\* the type of the entry at the path, from_files first; a directory otherwise
resolve_file_type(path) ==
  IF path \in DOMAIN from_files THEN from_files[path].file_type
  ELSE IF path \in DOMAIN to_files THEN to_files[path].file_type
  ELSE "Directory"

NewNode(path, file_type) ==
  [path |-> path, old_path |-> None, file_type |-> file_type, status |-> "Unchanged",
   added |-> None, removed |-> None, children |-> << >>]

\* children_map[parent], sorted
ChildPaths(parent, all_paths) ==
  SortPaths({q \in all_paths \ {Root} : parent_path(q) = parent})

RECURSIVE build_children(_, _)
\* the paths of the nodes build_children(parent) attaches, nested ones included
build_children(parent, all_paths) ==
  LET kids == ChildPaths(parent, all_paths)
  IN {kids[i] : i \in 1..Len(kids)}
     \cup UNION {build_children(kids[i], all_paths) : i \in 1..Len(kids)}

build_tree_structure(from_paths, to_paths, fdirs, tdirs) ==
  LET all_paths == from_paths \cup to_paths \cup fdirs \cup tdirs
  IN [p \in {Root} \cup build_children(Root, all_paths) |->
        [NewNode(p, IF p = Root THEN "Directory" ELSE resolve_file_type(p))
           EXCEPT !.children = ChildPaths(p, all_paths)]]

(* ------------------------- status and stats propagator ----------------- *)
\* a rename severs old_path from the status line that goes with it
MarkRenamedStatusOnly(node, old) == [node EXCEPT !.status = "Renamed"]

\* node.status = Renamed; node.old_path = Some(old_path)
MarkRenamed(node, old) == [node EXCEPT !.status = "Renamed", !.old_path = Some(old)]

\* the tally of s.split('\n') instead of s.lines()
LineTallySplit(c) == Len(split(c))

\* content.lines().count(): the tally of a file present on one side only
LineTally(c) == Len(lines(c))

\* a comparison that never finds two contents equal
SameContentNever(from, to) == FALSE

\* from == to, for a file present on both sides
SameContent(from, to) == from = to

\* the File arm of compute_node_stats
FileStats(node, ren) ==
  LET p == node.path
      isRename == p \in DOMAIN ren
      marked == IF isRename THEN MarkRenamed(node, ren[p]) ELSE node
      from_content == file_content(from_files, p)
      to_content == file_content(to_files, p)
      Set(n, st, a, r) == [n EXCEPT !.status = st, !.added = Some(a), !.removed = Some(r)]
  IN IF /\ isRename
        /\ file_content(from_files, ren[p]) # None
        /\ to_content # None
     THEN LET cd == count_diff(file_content(from_files, ren[p])[1], to_content[1])
          IN [marked EXCEPT !.added = Some(cd[1]), !.removed = Some(cd[2])]
     ELSE IF from_content # None /\ to_content # None
     THEN IF SameContent(from_content[1], to_content[1])
          THEN Set(marked, "Unchanged", 0, 0)
          ELSE LET cd == count_diff(from_content[1], to_content[1])
               IN Set(marked, "Modified", cd[1], cd[2])
     ELSE IF from_content # None
     THEN Set(marked, "Removed", 0, LineTally(from_content[1]))
     ELSE IF to_content # None
     THEN Set(marked, "Added", LineTally(to_content[1]), 0)
     ELSE Set(marked, "Unchanged", 0, 0)

\* a directory status that takes the two revisions for one another
DirStatusSidesSwapped(path, all_unchanged) ==
  LET in_from == path = Root \/ path \in to_dirs
      in_to == path = Root \/ path \in from_dirs
  IN IF ~in_from /\ in_to THEN "Added"
     ELSE IF in_from /\ ~in_to THEN "Removed"
     ELSE IF all_unchanged THEN "Unchanged"
     ELSE "Modified"

\* a directory status that does not look at the children
DirStatusIgnoresChildren(path, all_unchanged) ==
  LET in_from == path = Root \/ path \in from_dirs
      in_to == path = Root \/ path \in to_dirs
  IN IF ~in_from /\ in_to THEN "Added"
     ELSE IF in_from /\ ~in_to THEN "Removed"
     ELSE "Unchanged"

\* the status of a directory once its children are done
DirStatus(path, all_unchanged) ==
  LET in_from == path = Root \/ path \in from_dirs
      in_to == path = Root \/ path \in to_dirs
  IN IF ~in_from /\ in_to THEN "Added"
     ELSE IF in_from /\ ~in_to THEN "Removed"
     ELSE IF all_unchanged THEN "Unchanged"
     ELSE "Modified"

\* total_added, total_removed of a directory: the sums the children returned
DirTotals(t, kids) ==
  <<SumSeq([i \in 1..Len(kids) |-> t[kids[i]].added[1]]),
    SumSeq([i \in 1..Len(kids) |-> t[kids[i]].removed[1]])>>

RECURSIVE compute_node_stats(_, _, _)
RECURSIVE StatsOverChildren(_, _, _)
\* the tree after compute_node_stats has run on the node at path p
compute_node_stats(t, p, ren) ==
  IF t[p].file_type = "File"
  THEN [t EXCEPT ![p] = FileStats(t[p], ren)]
  ELSE LET kids == t[p].children
           t2 == StatsOverChildren(t, kids, ren)
           totals == DirTotals(t2, kids)
           all_unchanged == \A i \in 1..Len(kids) : t2[kids[i]].status = "Unchanged"
       IN [t2 EXCEPT ![p].added = Some(totals[1]),
                     ![p].removed = Some(totals[2]),
                     ![p].status = DirStatus(p, all_unchanged)]

StatsOverChildren(t, kids, ren) ==
  IF kids = << >> THEN t
  ELSE StatsOverChildren(compute_node_stats(t, Head(kids), ren), Tail(kids), ren)

compute_tree_stats(t, ren) == compute_node_stats(t, Root, ren)

\* build_tree for one enumeration order of the deleted and the added paths
build_tree(del, adds) ==
  compute_tree_stats(
    build_tree_structure(DOMAIN from_files, DOMAIN to_files, from_dirs, to_dirs),
    detect_renames_optimized(del, adds).renames)

(* ------------------------------- inputs -------------------------------- *)
\* The two maps are snapshots of a file tree (no File entry has entries below
\* it); they hold at most MaxEntries entries together, or are the same map.
WellFormed(files) ==
  \A p, q \in DOMAIN files : IsStrictPrefix(p, q) => files[p].file_type = "Directory"

FileMaps ==
  {f \in UNION {[S -> Entries] : S \in {S \in SUBSET PathPool : Cardinality(S) <= MaxEntries}} :
     WellFormed(f)}

(* ------------------------------- actions ------------------------------- *)
\* the thread-locals of lib.rs as the module is loaded: nothing cached, no
\* active diff, no call made
NoSession ==
  /\ cache = EmptyMap
  /\ active = None
  /\ calls = << >>
  /\ active_maps = None
  /\ diff_out = None

\* DiffTreeBuilder::new(similarity_threshold)
Init ==
  /\ similarity_threshold \in {ClampThreshold(t) : t \in RawThresholds}
  /\ from_files = EmptyMap /\ to_files = EmptyMap
  /\ from_file_paths = {} /\ to_file_paths = {}
  /\ from_dirs = {} /\ to_dirs = {}
  /\ deleted = << >> /\ added = << >>
  /\ renames = EmptyMap /\ used = {} /\ panicked = FALSE
  /\ tree = EmptyMap
  /\ pc = "new"
  /\ NoSession

set_from_files ==
  /\ pc = "new"
  /\ \E files \in FileMaps :
       /\ from_files' = files
       /\ from_file_paths' = collect_file_paths(files)
       /\ from_dirs' = collect_directories(files)
  /\ pc' = "from_set"
  /\ UNCHANGED <<to_files, to_file_paths, to_dirs, similarity_threshold, deleted, added,
                 renames, used, panicked, tree>>
  /\ UNCHANGED hostvars

set_to_files ==
  /\ pc = "from_set"
  /\ \E files \in FileMaps :
       /\ \/ Cardinality(DOMAIN from_files) + Cardinality(DOMAIN files) <= MaxEntries
          \/ files = from_files
       /\ to_files' = files
       /\ to_file_paths' = collect_file_paths(files)
       /\ to_dirs' = collect_directories(files)
  /\ pc' = "to_set"
  /\ UNCHANGED <<from_files, from_file_paths, from_dirs, similarity_threshold, deleted,
                 added, renames, used, panicked, tree>>
  /\ UNCHANGED hostvars

\* build_tree, step 1: the deleted and added paths, in the order the hash sets yield them
build_tree_classify ==
  /\ pc = "to_set"
  /\ deleted' \in Perms(from_file_paths \ to_file_paths)
  /\ added' \in Perms(to_file_paths \ from_file_paths)
  /\ pc' = "exact"
  /\ UNCHANGED <<from_files, to_files, from_file_paths, to_file_paths, from_dirs, to_dirs,
                 similarity_threshold, renames, used, panicked, tree>>
  /\ UNCHANGED hostvars

\* detect_renames_optimized, phase 1
detect_exact ==
  /\ pc = "exact"
  /\ LET st == ExactPhase(deleted, added)
     IN renames' = st.renames /\ used' = st.used /\ panicked' = st.panicked
  /\ pc' = "similar"
  /\ UNCHANGED <<from_files, to_files, from_file_paths, to_file_paths, from_dirs, to_dirs,
                 similarity_threshold, deleted, added, tree>>
  /\ UNCHANGED hostvars

\* detect_renames_optimized, phase 2
detect_similar ==
  /\ pc = "similar"
  /\ LET st == SimilarPhase(deleted, added,
                            [renames |-> renames, used |-> used, panicked |-> panicked])
     IN renames' = st.renames /\ used' = st.used /\ panicked' = st.panicked
  /\ pc' = IF panicked' THEN "panic" ELSE "structure"
  /\ UNCHANGED <<from_files, to_files, from_file_paths, to_file_paths, from_dirs, to_dirs,
                 similarity_threshold, deleted, added, tree>>
  /\ UNCHANGED hostvars

\* build_tree, step 3
build_structure ==
  /\ pc = "structure"
  /\ tree' = build_tree_structure(DOMAIN from_files, DOMAIN to_files, from_dirs, to_dirs)
  /\ pc' = "stats"
  /\ UNCHANGED <<from_files, to_files, from_file_paths, to_file_paths, from_dirs, to_dirs,
                 similarity_threshold, deleted, added, renames, used, panicked>>
  /\ UNCHANGED hostvars

\* build_tree, step 4
compute_stats ==
  /\ pc = "stats"
  /\ tree' = compute_tree_stats(tree, renames)
  /\ pc' = "done"
  /\ UNCHANGED <<from_files, to_files, from_file_paths, to_file_paths, from_dirs, to_dirs,
                 similarity_threshold, deleted, added, renames, used, panicked>>
  /\ UNCHANGED hostvars

Next ==
  \/ set_from_files
  \/ set_to_files
  \/ build_tree_classify
  \/ detect_exact
  \/ detect_similar
  \/ build_structure
  \/ compute_stats

Spec == Init /\ [][Next]_vars

(* ======================= properties of the result ====================== *)
Done == pc = "done"

NodePaths == DOMAIN tree

RECURSIVE NodeList(_, _)
\* the paths of the nodes of the subtree at p, in pre-order, one per node
NodeList(t, p) ==
  LET kids == t[p].children
      Below[i \in 0..Len(kids)] ==
        IF i = 0 THEN << >> ELSE Below[i - 1] \o NodeList(t, kids[i])
  IN <<p>> \o Below[Len(kids)]

\* how many nodes of the tree carry the path p
NodeCount(p) ==
  IF Root \notin DOMAIN tree THEN 0
  ELSE Cardinality({i \in 1..Len(NodeList(tree, Root)) : NodeList(tree, Root)[i] = p})

\* the nodes of the subtree at p, p included
Subtree(p) == {q \in NodePaths : q = p \/ IsStrictPrefix(p, q)}

\* the keys of a map and the parent directories they imply
KeysAndParents(files) ==
  DOMAIN files \cup {q \in PathPool : \E k \in DOMAIN files : IsStrictPrefix(q, k)}

\* the old paths of the rename pairs
OldPaths == {renames[a] : a \in DOMAIN renames}

\* C1: every key of from_files or to_files and every implied parent directory
\* has exactly one node, and the old path of a rename pair (when nothing else
\* puts that path in the to revision) has no node at all.
C1_OnePerPathNoneForOldPath ==
  Done =>
    \A p \in KeysAndParents(from_files) \cup KeysAndParents(to_files) :
      IF p \in OldPaths \ KeysAndParents(to_files)
      THEN NodeCount(p) = 0
      ELSE NodeCount(p) = 1

\* C2: every directory node carries counts, and they are the sums of the
\* counts its children carry.
C2_DirCountsAreChildSums ==
  Done =>
    \A p \in NodePaths :
      tree[p].file_type = "Directory" =>
        LET kids == tree[p].children
        IN /\ tree[p].added # None /\ tree[p].removed # None
           /\ \A i \in 1..Len(kids) :
                tree[kids[i]].added # None /\ tree[kids[i]].removed # None
           /\ tree[p].added[1] = SumSeq([i \in 1..Len(kids) |-> tree[kids[i]].added[1]])
           /\ tree[p].removed[1] = SumSeq([i \in 1..Len(kids) |-> tree[kids[i]].removed[1]])

\* the revision has a directory at p: a Directory entry, or an entry below p
ExistsAsDir(files, p) ==
  \/ p \in DOMAIN files /\ files[p].file_type = "Directory"
  \/ \E k \in DOMAIN files : IsStrictPrefix(p, k)

\* the same, the root being the directory of any revision that holds an entry
InRevision(files, p) == IF p = Root THEN DOMAIN files # {} ELSE ExistsAsDir(files, p)

\* compute_node_stats reaches the node: every node above it is a directory
Reached(p) == \A q \in NodePaths : IsStrictPrefix(q, p) => tree[q].file_type = "Directory"

DirNodes == {p \in NodePaths : tree[p].file_type = "Directory"}
FileNodes == {p \in NodePaths : tree[p].file_type = "File"}

C4_UnchangedIffFilesUnchanged ==
  Done =>
    \A n \in NodePaths :
      tree[n].status = "Unchanged" <=>
        \A f \in Subtree(n) \cap FileNodes : tree[f].status = "Unchanged"

\* C4, amended: a node is Unchanged iff every file node of its subtree is
\* Unchanged and no directory node of its subtree, itself included, is Added
\* or Removed.
C4_UnchangedIffSubtreeUnchanged ==
  Done =>
    \A n \in NodePaths :
      tree[n].status = "Unchanged" <=>
        /\ \A f \in Subtree(n) \cap FileNodes : tree[f].status = "Unchanged"
        /\ \A q \in Subtree(n) \cap DirNodes : tree[q].status \notin {"Added", "Removed"}

\* a directory without any file below it is Added, and the root above it is
\* Modified, while a file next to it is Unchanged
C4_Witness ==
  /\ Done
  /\ tree[Root].status = "Modified"
  /\ \E p \in DirNodes : tree[p].status = "Added" /\ Subtree(p) \cap FileNodes = {}
  /\ \E f \in FileNodes : tree[f].status = "Unchanged"
  /\ \A f \in FileNodes : tree[f].status = "Unchanged"

\* the number of '\n' characters of a content
NewlineCount(c) == Cardinality({i \in 1..Len(c) : c[i] = "\n"})

\* the number of elements of the content split on '\n'
SplitCount(c) == NewlineCount(c) + 1

\* the number of lines of the content: a final newline ends the last line
\* and starts no new one
LineCount(c) ==
  NewlineCount(c) + (IF c # << >> /\ c[Len(c)] # "\n" THEN 1 ELSE 0)

\* C5 with the tally Count(_): an Added file has removed = 0 and added = the
\* tally of its to content, a Removed file has added = 0 and removed = the tally
\* of its from content, and with to_files empty every file node is Removed.
OneSidedCounts(Count(_)) ==
  Done =>
    /\ \A p \in FileNodes :
         /\ tree[p].status = "Added" =>
              /\ file_content(to_files, p) # None
              /\ tree[p].removed = Some(0)
              /\ tree[p].added = Some(Count(file_content(to_files, p)[1]))
         /\ tree[p].status = "Removed" =>
              /\ file_content(from_files, p) # None
              /\ tree[p].added = Some(0)
              /\ tree[p].removed = Some(Count(file_content(from_files, p)[1]))
    /\ to_files = EmptyMap => \A p \in FileNodes : tree[p].status = "Removed"

C6_OldPathIffRenamed ==
  Done =>
    \A p \in NodePaths :
      /\ tree[p].old_path # None <=> tree[p].status = "Renamed"
      /\ tree[p].status = "Renamed" => tree[p].file_type = "File"

\* a rename pair whose new path is a File node: the node is Renamed and
\* carries the pair's old path
C6_Witness ==
  /\ Done
  /\ \E p \in FileNodes :
       /\ tree[p].status = "Renamed"
       /\ p \in DOMAIN renames
       /\ tree[p].old_path = Some(renames[p])

IsFile(files, p) == p \in DOMAIN files /\ files[p].file_type = "File"

\* the files only in from_files, and those only in to_files
DeletedSet == {p \in DOMAIN from_files : IsFile(from_files, p) /\ ~IsFile(to_files, p)}
AddedSet == {p \in DOMAIN to_files : IsFile(to_files, p) /\ ~IsFile(from_files, p)}

\* the boosted similarity score of a deleted and an added file
BoostedScore(d, a) == adjusted_score(d, a, from_files[d].content, to_files[a].content)

\* the pairs the detector may make: equal contents, or the filters and the
\* threshold passed
CandidatePairs ==
  {pr \in DeletedSet \X AddedSet :
     LET dc == from_files[pr[1]].content
         ac == to_files[pr[2]].content
     IN \/ dc = ac
        \/ /\ can_be_similar(dc, ac)
           /\ ~JaccardTooLow(jaccard_similarity(LineSet(ac), LineSet(dc)))
           /\ ClearsThreshold(BoostedScore(pr[1], pr[2]))}

NoScoreTies ==
  \A x, y \in CandidatePairs :
    x # y => LET sx == BoostedScore(x[1], x[2])
                 sy == BoostedScore(y[1], y[2])
             IN sx[1] * sy[2] # sy[1] * sx[2]

\* C7: when no two candidate rename pairs have equal boosted scores, every
\* enumeration order of the deleted and the added paths gives the tree this
\* run has built.
C7_OrderIndependentWithoutTies ==
  (Done /\ NoScoreTies) =>
    \A d2 \in Perms(DeletedSet) : \A a2 \in Perms(AddedSet) : build_tree(d2, a2) = tree

RenamesKnown == pc \in {"similar", "structure", "stats", "done"}

\* C8: the rename mapping is one-to-one, its new paths are files only of
\* to_files and its old paths files only of from_files; in the tree an old path
\* is the old_path of at most one node, and a path that is a file in both
\* revisions is neither Renamed nor an old_path.
C8_RenamesOneToOne ==
  /\ RenamesKnown =>
       /\ \A a1, a2 \in DOMAIN renames : a1 # a2 => renames[a1] # renames[a2]
       /\ \A a \in DOMAIN renames :
            /\ IsFile(to_files, a) /\ ~IsFile(from_files, a)
            /\ IsFile(from_files, renames[a]) /\ ~IsFile(to_files, renames[a])
  /\ Done =>
       /\ \A o \in PathPool :
            Cardinality({p \in NodePaths : tree[p].old_path = Some(o)}) <= 1
       /\ \A p \in NodePaths :
            tree[p].old_path # None => tree[p].old_path = Some(renames[p])
       /\ \A p \in PathPool :
            (IsFile(from_files, p) /\ IsFile(to_files, p)) =>
              /\ p \in NodePaths /\ tree[p].status # "Renamed"
              /\ \A q \in NodePaths : tree[q].old_path # Some(p)

\* two added files compete for one deleted file with their content: one is
\* Renamed from it, the other is left unpaired
C8_Witness ==
  /\ Done
  /\ \E a \in DOMAIN renames : \E a2 \in AddedSet \ DOMAIN renames :
       /\ to_files[a2].content = from_files[renames[a]].content
       /\ tree[a].status = "Renamed"
       /\ tree[a2].status = "Added"

\* C9: after rename detection no unpaired added file and unused deleted file
\* have equal contents, and every pair made on equal contents is a Renamed node
\* with counts (0, 0).
C9_ExactMatchesAllRenamed ==
  Done =>
    /\ \A a \in AddedSet \ DOMAIN renames : \A d \in DeletedSet \ OldPaths :
         to_files[a].content # from_files[d].content
    /\ \A a \in DOMAIN renames :
         to_files[a].content = from_files[renames[a]].content =>
           /\ a \in NodePaths
           /\ tree[a].status = "Renamed"
           /\ tree[a].added = Some(0) /\ tree[a].removed = Some(0)

CommonFiles == {p \in PathPool : IsFile(from_files, p) /\ IsFile(to_files, p)}

\* a line of a content, with the newline that ends it
TerminatedLines(c) == SplitInclusive(c, << >>)

\* the number of Insert and of Delete changes of the line diff: the lines of
\* the new (old) content outside a longest common subsequence of lines
InsertChanges(from, to) ==
  Len(TerminatedLines(to)) - Lcs(TerminatedLines(from), TerminatedLines(to))
DeleteChanges(from, to) ==
  Len(TerminatedLines(from)) - Lcs(TerminatedLines(from), TerminatedLines(to))

CharOrder == <<"/", "a", "b", "d">>
CharRank(c) == CHOOSE i \in 1..Len(CharOrder) : CharOrder[i] = c

RECURSIVE PathString(_)
\* the string of a path: its segments joined by '/'
PathString(p) ==
  IF p = << >> THEN << >>
  ELSE IF Len(p) = 1 THEN <<p[1]>>
  ELSE <<p[1], "/">> \o PathString(Tail(p))

RECURSIVE StringLess(_, _)
\* s < t, byte by byte; a proper prefix comes first
StringLess(s, t) ==
  IF t = << >> THEN FALSE
  ELSE IF s = << >> THEN TRUE
  ELSE IF Head(s) # Head(t) THEN CharRank(Head(s)) < CharRank(Head(t))
  ELSE StringLess(Tail(s), Tail(t))

\* everything before the last '/' of a path string, or the root's path
ParentString(s) ==
  LET slashes == {i \in 1..Len(s) : s[i] = "/"}
  IN IF slashes = {} THEN PathString(Root)
     ELSE SubSeq(s, 1, (CHOOSE i \in slashes : \A j \in slashes : j <= i) - 1)

\* C12: in every node of the output tree the children are in strictly
\* ascending order of path string, and each child's parent path is the path
\* of the node that holds it.
C12_ChildrenSortedUnderParent ==
  Done =>
    \A p \in NodePaths :
      LET kids == tree[p].children
      IN /\ \A i \in 1..(Len(kids) - 1) :
              StringLess(PathString(kids[i]), PathString(kids[i + 1]))
         /\ \A i \in 1..Len(kids) :
              /\ kids[i] \in NodePaths
              /\ tree[kids[i]].path = kids[i]
              /\ ParentString(PathString(kids[i])) = PathString(tree[p].path)

\* the root holds three children in ascending order, and a directory below
\* it holds a child of its own
C12_Witness ==
  /\ Done
  /\ tree[Root].children = << <<"a">>, <<"b">>, <<"d">> >>
  /\ tree[<<"d">>].file_type = "Directory"
  /\ tree[<<"d">>].children = << <<"d", "a">> >>

\* C15: build_diff_tree is total: no step of the build panics, the build
\* ends with a tree that has a root, and when phase 2 starts every deleted path
\* not marked used has a precomputed line set, so phase 2 ends without a
\* failed lookup.
C15_BuildDiffTreeTotal ==
  /\ ~panicked
  /\ pc # "panic"
  /\ pc = "similar" =>
       /\ DeletedSet \ used \subseteq DOMAIN del_line_sets(deleted, used)
       /\ ~SimilarPhase(deleted, added,
                        [renames |-> renames, used |-> used, panicked |-> panicked]).panicked
  /\ Done => Root \in NodePaths /\ tree[Root].file_type = "Directory"

\* phase 2 has run and has taken an unused deleted path through the
\* length-ratio filter to the Jaccard filter for an added path; the pair was
\* turned down there or at the threshold, and the tree is built
C15_Witness ==
  /\ Done
  /\ Root \in NodePaths
  /\ \E a \in AddedSet \ DOMAIN renames : \E d \in DeletedSet \ used :
       can_be_similar(from_files[d].content, to_files[a].content)

\* phase 2 of rename detection has run
SimilarDone == pc \in {"structure", "stats", "done"}

\* the place of a path in the iteration order over the deleted (added) paths
DeletedIndex(d) == CHOOSE i \in 1..Len(deleted) : deleted[i] = d
AddedIndex(a) == CHOOSE i \in 1..Len(added) : added[i] = a

\* the pairs and the used set phase 1 ends with
ExactResult == ExactPhase(deleted, added)

\* the added paths phase 1 leaves unmatched
UnmatchedByExact == AddedSet \ DOMAIN ExactResult.renames

\* the deleted paths still unused when phase 2 turns to the added path a
UnusedAtTurn(a) ==
  DeletedSet \ SimilarLoop(deleted, SubSeq(added, 1, AddedIndex(a) - 1),
                           del_line_sets(deleted, ExactResult.used), ExactResult).used

\* d passes the length-ratio and the Jaccard filter for a, and its boosted
\* score is at least the threshold
Qualifies(d, a) ==
  LET dc == from_files[d].content
      ac == to_files[a].content
      score == BoostedScore(d, a)
  IN /\ 10 * Len(dc) >= similarity_threshold * Max(Len(ac), 1)
     /\ (similarity_threshold = 0 \/ similarity_threshold * Len(dc) <= 10 * Max(Len(ac), 1))
     /\ ~JaccardTooLow(jaccard_similarity(LineSet(ac), LineSet(dc)))
     /\ 10 * score[1] >= similarity_threshold * score[2]

ScoreLeq(x, y) == x[1] * y[2] <= y[1] * x[2]

\* the unused deleted paths that qualify for a, and those of them with the
\* highest boosted score
QualifiersAtTurn(a) == {d \in UnusedAtTurn(a) : Qualifies(d, a)}
TopAtTurn(a) ==
  {d \in QualifiersAtTurn(a) :
     \A e \in QualifiersAtTurn(a) : ScoreLeq(BoostedScore(e, a), BoostedScore(d, a))}

\* C16, as stated: when several unused deleted paths clear the threshold for
\* an added path with the same highest boosted score, the one seen last in the
\* iteration order over the deleted paths is paired with it.
C16_TieLastSeenWins ==
  SimilarDone =>
    \A a \in UnmatchedByExact :
      Cardinality(TopAtTurn(a)) >= 2 =>
        /\ a \in DOMAIN renames
        /\ renames[a] \in TopAtTurn(a)
        /\ \A d \in TopAtTurn(a) : DeletedIndex(d) <= DeletedIndex(renames[a])

\* C16, amended: on such a tie the one seen first in the iteration order
\* over the deleted paths is paired with the added path.
C16_TieFirstSeenWins ==
  SimilarDone =>
    \A a \in UnmatchedByExact :
      Cardinality(TopAtTurn(a)) >= 2 =>
        /\ a \in DOMAIN renames
        /\ renames[a] \in TopAtTurn(a)
        /\ \A d \in TopAtTurn(a) : DeletedIndex(renames[a]) <= DeletedIndex(d)

\* two deleted files tie at the top for an added file of another content;
\* the added file is paired with the one that comes first
C16_Witness ==
  /\ SimilarDone
  /\ \E a \in UnmatchedByExact :
       /\ Cardinality(TopAtTurn(a)) = 2
       /\ a \in DOMAIN renames
       /\ renames[a] = deleted[1]
       /\ deleted[2] \in TopAtTurn(a)
       /\ to_files[a].content # from_files[renames[a]].content

\* C17: phase 2 pairs each added path phase 1 left unmatched with a deleted
\* path of the highest boosted score among the still-unused deleted paths that
\* qualify; when none qualifies the added path is not renamed and its node has
\* status Added.
C17_BestQualifierOrAdded ==
  SimilarDone =>
    \A a \in UnmatchedByExact :
      IF QualifiersAtTurn(a) # {}
      THEN a \in DOMAIN renames /\ renames[a] \in TopAtTurn(a)
      ELSE /\ a \notin DOMAIN renames
           /\ Done => a \in NodePaths /\ tree[a].status = "Added"

\* C18: every File key of to_files that is not a File key of from_files and
\* not the new path of a rename pair has a File node with status Added, also
\* when from_files holds a Directory entry at that path; symmetrically a File
\* only of from_files has a File node with status Removed.
C18_OneSidedFilesAddedOrRemoved ==
  Done =>
    /\ \A a \in AddedSet \ DOMAIN renames :
         /\ a \in NodePaths
         /\ tree[a].file_type = "File"
         /\ tree[a].status = "Added"
    /\ \A d \in DeletedSet :
         /\ d \in NodePaths
         /\ tree[d].file_type = "File"
         /\ tree[d].status = "Removed"

(* ====================== the session layer (lib.rs) ===================== *)
\* most prefetch and build calls of one session
MaxCalls == 2

\* the registry, the package and the versions the calls name
Registry == "npm"
Package == "p"
Versions == {"1", "2"}

\* the file maps a fetch of a package version may bring back
HostMaps ==
  { (<<"a">> :> FileEntry(<<"x", "\n">>)),
    (<<"a">> :> FileEntry(<<"x", "\n", "x">>) @@ <<"b">> :> FileEntry(<<"x">>)),
    (<<"a">> :> DirEntry) }

\* the paths get_diff_for_path is asked about, and the old paths it is given
HostPaths == {<<"a">>, <<"b">>}
HostOldPaths == {None, Some(<<"b">>)}

\* format!("{registry}:{pkg}:{version}")
cache_key(registry, pkg, version) == <<registry, ":", pkg, ":", version>>

\* EXTRACTION_CACHE.get(&key).cloned()
CacheLookup(c, key) == IF key \in DOMAIN c THEN Some(c[key]) ELSE None

\* EXTRACTION_CACHE.insert(key, files.clone())
CacheInsert(c, key, files) == Insert(c, key, files)

(* ------------------------------ diff text ------------------------------ *)
StrFromDir == <<"f", "r", "o", "m", "/">>
StrToDir == <<"t", "o", "/">>
StrDevNull == <<"/", "d", "e", "v", "/", "n", "u", "l", "l">>
StrOldMark == <<"-", "-", "-", " ">>
StrNewMark == <<"+", "+", "+", " ">>
StrNotPresent ==
  <<"F", "i", "l", "e", " ", "n", "o", "t", " ", "p", "r", "e", "s", "e", "n", "t", " ",
    "i", "n", " ", "e", "i", "t", "h", "e", "r", " ", "v", "e", "r", "s", "i", "o", "n", ".">>
NoActiveDiffContext == "No active diff context"

RECURSIVE Join(_, _)
\* parts.join(sep)
Join(parts, sep) ==
  IF parts = << >> THEN << >>
  ELSE IF Len(parts) = 1 THEN parts[1]
  ELSE parts[1] \o sep \o Join(Tail(parts), sep)

RECURSIVE CommonPrefixLen(_, _)
CommonPrefixLen(a, b) ==
  IF a = << >> \/ b = << >> THEN 0
  ELSE IF Head(a) # Head(b) THEN 0
  ELSE 1 + CommonPrefixLen(Tail(a), Tail(b))

Reverse(s) == [i \in 1..Len(s) |-> s[Len(s) + 1 - i]]

\* TextDiff::from_slices(old, new).iter_all_changes(): the common prefix and
\* the common suffix are Equal; what lies between is one Replace (its
\* deletions, then its insertions).  The lines of two contents of the pool
\* share nothing between prefix and suffix, so no further Equal line is there.
iter_all_changes(old, new) ==
  LET pre == CommonPrefixLen(old, new)
      o1 == SubSeq(old, pre + 1, Len(old))
      n1 == SubSeq(new, pre + 1, Len(new))
      suf == CommonPrefixLen(Reverse(o1), Reverse(n1))
      Tagged(t, ls) == [i \in 1..Len(ls) |-> [tag |-> t, value |-> ls[i]]]
  IN Tagged("Equal", SubSeq(old, 1, pre))
     \o Tagged("Delete", SubSeq(o1, 1, Len(o1) - suf))
     \o Tagged("Insert", SubSeq(n1, 1, Len(n1) - suf))
     \o Tagged("Equal", SubSeq(o1, Len(o1) - suf + 1, Len(o1)))

RECURSIVE PushChanges(_, _)
\* the loop of get_diff_content: '\n', the sign, ' ' and the line, per change
PushChanges(result, changes) ==
  IF changes = << >> THEN result
  ELSE LET change == Head(changes)
           sign == IF change.tag = "Delete" THEN "-"
                   ELSE IF change.tag = "Insert" THEN "+" ELSE " "
       IN PushChanges(result \o <<"\n", sign, " ">> \o change.value, Tail(changes))

get_diff_content(filename, from_content, to_content) ==
  PushChanges(StrOldMark \o StrFromDir \o filename \o <<"\n">>
                \o StrNewMark \o StrToDir \o filename,
              iter_all_changes(split(from_content), split(to_content)))

\* one-sided lines taken with str::lines(), which drops the piece after a final newline
SignedLinesByLines(sign, content) ==
  [i \in 1..Len(lines(content)) |-> <<sign, " ">> \o lines(content)[i]]

\* format!("+ {line}") (or "- {line}") for each line of content.split('\n')
SignedLines(sign, content) ==
  [i \in 1..Len(split(content)) |-> <<sign, " ">> \o split(content)[i]]

build_diff_result(filename, from_content, to_content) ==
  IF from_content = None /\ to_content = None
  THEN [data |-> StrNotPresent, is_diff |-> FALSE]
  ELSE IF from_content = None
  THEN [data |-> Join(<<StrOldMark \o StrDevNull \o <<"\n">> \o StrNewMark \o StrToDir \o filename>>
                        \o SignedLines("+", to_content[1]), <<"\n">>),
        is_diff |-> TRUE]
  ELSE IF to_content = None
  THEN [data |-> Join(<<StrOldMark \o StrFromDir \o filename \o <<"\n">> \o StrNewMark \o StrDevNull>>
                        \o SignedLines("-", from_content[1]), <<"\n">>),
        is_diff |-> TRUE]
  ELSE IF from_content[1] = to_content[1]
  THEN [data |-> to_content[1], is_diff |-> FALSE]
  ELSE [data |-> get_diff_content(filename, from_content[1], to_content[1]),
        is_diff |-> TRUE]

(* --------------------------- calls of the session ---------------------- *)
\* A call record: the operation, the versions it names, where it stands
\* ("fetch", "fetch_from", "fetch_to": suspended at the await of that fetch;
\* "ok", "err": returned) and, for a build waiting for its to map, the from
\* map it holds.
CallRecord(op, stage, from, to, held) ==
  [op |-> op, stage |-> stage, from |-> from, to |-> to, from_files |-> held]

FromKey(c) == cache_key(Registry, Package, c.from)
ToKey(c) == cache_key(Registry, Package, c.to)

\* a build that returns without touching the pointer
ActiveAfterBuildUnset(from_key, to_key) == None

\* *state.borrow_mut() = Some(ActiveDiff { from_key, to_key })
ActiveAfterBuild(from_key, to_key) == Some([from_key |-> from_key, to_key |-> to_key])

\* the end of build_diff_tree_for_package once both maps are at hand: the core
\* builds the tree from them (it is total and keeps no state of the session),
\* the pointer is set and the tree is returned
BuildReturns(c, from_map, to_map) ==
  /\ active' = ActiveAfterBuild(FromKey(c), ToKey(c))
  /\ active_maps' = Some([from_files |-> from_map, to_files |-> to_map])

\* prefetch_package up to its first suspension: a cached key returns at once
prefetch_package ==
  /\ Len(calls) < MaxCalls
  /\ \E v \in Versions :
       LET hit == CacheLookup(cache, cache_key(Registry, Package, v))
       IN calls' = Append(calls, CallRecord("prefetch", IF hit # None THEN "ok" ELSE "fetch",
                                            v, v, None))
  /\ diff_out' = None
  /\ UNCHANGED <<cache, active, active_maps>>
  /\ UNCHANGED corevars

\* build_diff_tree_for_package up to its first suspension
build_diff_tree_for_package ==
  /\ Len(calls) < MaxCalls
  /\ \E f, t \in Versions :
       LET c == CallRecord("build", "fetch_from", f, t, None)
           from_hit == CacheLookup(cache, FromKey(c))
           to_hit == CacheLookup(cache, ToKey(c))
       IN IF from_hit = None
          THEN /\ calls' = Append(calls, c)
               /\ UNCHANGED <<active, active_maps>>
          ELSE IF to_hit = None
          THEN /\ calls' = Append(calls, [c EXCEPT !.stage = "fetch_to", !.from_files = from_hit])
               /\ UNCHANGED <<active, active_maps>>
          ELSE /\ calls' = Append(calls, [c EXCEPT !.stage = "ok"])
               /\ BuildReturns(c, from_hit[1], to_hit[1])
  /\ diff_out' = None
  /\ UNCHANGED cache
  /\ UNCHANGED corevars

Suspended(i) == calls[i].stage \in {"fetch", "fetch_from", "fetch_to"}

\* fetch_and_extract_package(...).await? fails: the call returns the error
fetch_failed ==
  /\ \E i \in 1..Len(calls) :
       /\ Suspended(i)
       /\ calls' = [calls EXCEPT ![i].stage = "err", ![i].from_files = None]
  /\ diff_out' = None
  /\ UNCHANGED <<cache, active, active_maps>>
  /\ UNCHANGED corevars

\* fetch_and_extract_package(...).await? brings a file map back: it is put in
\* the cache and the call runs on to its next suspension or to its end
fetch_returned ==
  /\ \E i \in 1..Len(calls) : \E files \in HostMaps :
       LET c == calls[i]
       IN /\ Suspended(i)
          /\ IF c.stage = "fetch"
             THEN /\ cache' = CacheInsert(cache, FromKey(c), files)
                  /\ calls' = [calls EXCEPT ![i].stage = "ok"]
                  /\ UNCHANGED <<active, active_maps>>
             ELSE IF c.stage = "fetch_from"
             THEN LET cache1 == CacheInsert(cache, FromKey(c), files)
                      to_hit == CacheLookup(cache1, ToKey(c))
                  IN /\ cache' = cache1
                     /\ IF to_hit = None
                        THEN /\ calls' = [calls EXCEPT ![i].stage = "fetch_to",
                                                       ![i].from_files = Some(files)]
                             /\ UNCHANGED <<active, active_maps>>
                        ELSE /\ calls' = [calls EXCEPT ![i].stage = "ok"]
                             /\ BuildReturns(c, files, to_hit[1])
             ELSE /\ cache' = CacheInsert(cache, ToKey(c), files)
                  /\ calls' = [calls EXCEPT ![i].stage = "ok", ![i].from_files = None]
                  /\ BuildReturns(c, c.from_files[1], files)
  /\ diff_out' = None
  /\ UNCHANGED corevars

\* a build call has returned Ok
BuildCompleted == \E i \in 1..Len(calls) : calls[i].op = "build" /\ calls[i].stage = "ok"

\* files.get(path) narrowed to the content of a File entry, in the map cached under key
CachedContent(key, path) ==
  IF key \in DOMAIN cache THEN file_content(cache[key], path) ELSE None

\* get_diff_for_path(filename, old_path); diff_out holds the arguments, what
\* was read, the result, and whether a build had returned Ok before the call,
\* until the session takes its next step
get_diff_for_path ==
  /\ \E filename \in HostPaths : \E old_path \in HostOldPaths :
       LET from_path == IF old_path # None THEN old_path[1] ELSE filename
           from_content == IF active = None THEN None
                           ELSE CachedContent(active[1].from_key, from_path)
           to_content == IF active = None THEN None
                         ELSE CachedContent(active[1].to_key, filename)
       IN diff_out' =
            Some([filename |-> filename, old_path |-> old_path,
                  built_before |-> BuildCompleted,
                  from_content |-> from_content, to_content |-> to_content,
                  result |-> IF active = None
                             THEN [ok |-> FALSE, error |-> NoActiveDiffContext]
                             ELSE [ok |-> TRUE,
                                   value |-> build_diff_result(PathString(filename),
                                                               from_content, to_content)]])
  /\ UNCHANGED <<cache, active, calls, active_maps>>
  /\ UNCHANGED corevars

\* the session: the module is loaded and the host makes its calls in any order
HostInit ==
  /\ similarity_threshold = ClampThreshold(5)
  /\ from_files = EmptyMap /\ to_files = EmptyMap
  /\ from_file_paths = {} /\ to_file_paths = {}
  /\ from_dirs = {} /\ to_dirs = {}
  /\ deleted = << >> /\ added = << >>
  /\ renames = EmptyMap /\ used = {} /\ panicked = FALSE
  /\ tree = EmptyMap
  /\ pc = "new"
  /\ NoSession

HostNext ==
  \/ prefetch_package
  \/ build_diff_tree_for_package
  \/ fetch_failed
  \/ fetch_returned
  \/ get_diff_for_path

HostSpec == HostInit /\ [][HostNext]_vars

(* ===================== properties of the session ======================= *)
\* the result of a get_diff_for_path call that found no active diff
NoActiveError == [ok |-> FALSE, error |-> NoActiveDiffContext]

\* C13: get_diff_for_path fails with "No active diff context" exactly when no
\* build_diff_tree_for_package call has returned Ok before it: the pointer is
\* unset exactly as long as no build has returned Ok, whatever prefetches and
\* failed builds there have been.
C13_NoActiveContextIffNoBuild ==
  /\ active = None <=> ~BuildCompleted
  /\ diff_out # None =>
       /\ diff_out[1].result = NoActiveError <=> ~diff_out[1].built_before
       /\ diff_out[1].result.ok <=> diff_out[1].built_before

\* a prefetch has returned Ok and a build has failed at a fetch; a
\* get_diff_for_path call after them fails for want of an active diff
C13_Witness ==
  /\ \E i \in 1..Len(calls) : calls[i].op = "prefetch" /\ calls[i].stage = "ok"
  /\ \E i \in 1..Len(calls) : calls[i].op = "build" /\ calls[i].stage = "err"
  /\ cache # EmptyMap
  /\ diff_out # None
  /\ diff_out[1].result = NoActiveError

\* the positions of the newlines of a content; the k-th of them, with 0
\* before the content and one past its end after the last
NewlineAt(c) == {j \in 1..Len(c) : c[j] = "\n"}
NewlineNo(c, k) ==
  IF k = 0 THEN 0
  ELSE IF k > Cardinality(NewlineAt(c)) THEN Len(c) + 1
  ELSE CHOOSE j \in NewlineAt(c) : Cardinality({m \in NewlineAt(c) : m <= j}) = k

\* the i-th element of the content split on '\n'
Piece(c, i) == SubSeq(c, NewlineNo(c, i - 1) + 1, NewlineNo(c, i) - 1)

\* one line "<mark> <element>" per element of the content split on '\n',
\* each after a newline
MarkedPieces(mark, c) ==
  LET Upto[i \in 0..SplitCount(c)] ==
        IF i = 0 THEN << >> ELSE Upto[i - 1] \o <<"\n", mark, " ">> \o Piece(c, i)
  IN Upto[SplitCount(c)]

\* C14: the per-file diff result.  is_diff is false exactly when the file is
\* absent on both sides (data is the literal) or present on both with equal
\* content (data is the to content); present on one side only, data is the
\* /dev/null header and one "+ " or "- " line per element of the content
\* split on '\n'; present on both with different content, data is
\* get_diff_content(filename, from, to).
C14_DiffResultShape ==
  (diff_out # None /\ diff_out[1].result.ok) =>
    LET from == diff_out[1].from_content
        to == diff_out[1].to_content
        fn == PathString(diff_out[1].filename)
        r == diff_out[1].result.value
    IN /\ ~r.is_diff <=> \/ from = None /\ to = None
                         \/ from # None /\ to # None /\ from = to
       /\ (from = None /\ to = None) => r.data = StrNotPresent
       /\ (from # None /\ to # None /\ from = to) => r.data = to[1]
       /\ (from = None /\ to # None) =>
            r.data = StrOldMark \o StrDevNull \o <<"\n">> \o StrNewMark \o StrToDir \o fn
                       \o MarkedPieces("+", to[1])
       /\ (from # None /\ to = None) =>
            r.data = StrOldMark \o StrFromDir \o fn \o <<"\n">> \o StrNewMark \o StrDevNull
                       \o MarkedPieces("-", from[1])
       /\ (from # None /\ to # None /\ from # to) =>
            r.data = get_diff_content(fn, from[1], to[1])

\* the file a is "x\n" in the to version and no file in the from version:
\* the result is the /dev/null header, "+ x" and "+ " for the empty last element
C14_Witness ==
  /\ diff_out # None
  /\ diff_out[1].result.ok
  /\ diff_out[1].filename = <<"a">>
  /\ diff_out[1].from_content = None
  /\ diff_out[1].to_content = Some(<<"x", "\n">>)
  /\ diff_out[1].result.value.is_diff
  /\ diff_out[1].result.value.data =
       <<"-", "-", "-", " ", "/", "d", "e", "v", "/", "n", "u", "l", "l", "\n",
         "+", "+", "+", " ", "t", "o", "/", "a", "\n",
         "+", " ", "x", "\n",
         "+", " ">>

\* the keys under which a call that has returned Ok has found or put a map
KeysOfReturned ==
  UNION {IF calls[i].op = "build" THEN {FromKey(calls[i]), ToKey(calls[i])}
         ELSE {FromKey(calls[i])} : i \in {j \in 1..Len(calls) : calls[j].stage = "ok"}}

\* C19: under any interleaving of the calls no key leaves the cache, the keys
\* of a set pointer are in the cache, and get_diff_for_path reads from the two
\* maps the active tree was built from.
C19_ActiveDiffReadsBuiltMaps ==
  /\ KeysOfReturned \subseteq DOMAIN cache
  /\ active # None =>
       /\ active[1].from_key \in DOMAIN cache
       /\ active[1].to_key \in DOMAIN cache
       /\ active_maps # None
       /\ cache[active[1].from_key] = active_maps[1].from_files
       /\ cache[active[1].to_key] = active_maps[1].to_files
  /\ (diff_out # None /\ diff_out[1].result.ok) =>
       LET from_path == IF diff_out[1].old_path # None THEN diff_out[1].old_path[1]
                        ELSE diff_out[1].filename
       IN /\ diff_out[1].from_content = file_content(active_maps[1].from_files, from_path)
          /\ diff_out[1].to_content
               = file_content(active_maps[1].to_files, diff_out[1].filename)

====
